---- MODULE Spec2Model ----
(***************************************************************************)
(* WebScribe: the HTML -> Markdown + metadata pipeline of                  *)
(* HTMLParserService.parse (app/services/parser.py), with the helpers of   *)
(* app/utils/extractors.py and app/utils/cleaners.py, the converter of     *)
(* app/services/markdown.py and WebhookService.deliver                     *)
(* (app/services/webhook.py).                                              *)
(*                                                                         *)
(* A document is the BeautifulSoup tree: a sequence of nodes in document   *)
(* (pre-order) order, each with the index of its parent (0 is the          *)
(* BeautifulSoup object itself).  Strings are sequences of one-character   *)
(* strings, so that whitespace handling is computed and not assumed.       *)
(***************************************************************************)
EXTENDS Integers, Sequences, FiniteSets, TLC

VARIABLES
    nodes,          \* the parsed document: Seq of node records (fixed per call)
    alive,          \* indices of the nodes still attached to the tree
    text,           \* current string of every text/comment node
    pc,             \* position of the call
    runs,           \* completed runs of _strip_unwanted on this tree
    before,         \* <<alive, text>> when the latest run of _strip_unwanted began
    article_node,   \* result of detect_main_content (0: the soup object)
    metadata,       \* result of extract_metadata
    markdown,       \* result of MarkdownService.convert
    raised,         \* an exception escaped the call
    webhook         \* the WebhookService and its deliver call

vars == <<nodes, alive, text, pc, runs, before, article_node, metadata, markdown, raised,
         webhook>>

-----------------------------------------------------------------------------
(* Bounds of the model *)

\* nodes below the root in a generic tree
MaxNodes == 4
\* items (meta / title elements) in the head of a parsed document
MaxHead == 2
\* runs of _strip_unwanted on the same tree
MaxRuns == 2
\* parse calls in progress on the shared HTMLParserService
MaxCalls == 2
\* rows of a table and cells of a row
MaxRows == 3
MaxCells == 2
\* the largest max_retries of a WebhookService (the default is 3)
MaxRetries == 3

-----------------------------------------------------------------------------
(* Strings *)

WS == {" ", "\n", "\t"}

IsSpace(c) == c \in WS

RECURSIVE LStrip(_)
LStrip(s) == IF s # <<>> /\ IsSpace(Head(s)) THEN LStrip(Tail(s)) ELSE s

RECURSIVE RStrip(_)
RStrip(s) ==
    IF s # <<>> /\ IsSpace(s[Len(s)]) THEN RStrip(SubSeq(s, 1, Len(s) - 1)) ELSE s

\* str.strip()
Strip(s) == RStrip(LStrip(s))

RECURSIVE SubWhitespace(_)
\* _whitespace_re.sub(" ", text): every maximal run of whitespace becomes one space
SubWhitespace(s) ==
    IF s = <<>> THEN <<>>
    ELSE IF IsSpace(Head(s)) THEN <<" ">> \o SubWhitespace(LStrip(s))
    ELSE <<Head(s)>> \o SubWhitespace(Tail(s))

\* the runs collapsed, the ends not trimmed
clean_text_untrimmed(s) == SubWhitespace(s)

clean_text(s) == Strip(SubWhitespace(s))

-----------------------------------------------------------------------------
(* Optional values *)

None == [some |-> FALSE, val |-> <<>>]

Some(v) == [some |-> TRUE, val |-> v]

-----------------------------------------------------------------------------
(* The tree *)

VoidTags == {"img", "meta"}

\* a node: an element with its attributes (pairs <<attribute, value>>), a
\* NavigableString or a Comment
Tag(name, parent) ==
    [kind |-> "tag", name |-> name, parent |-> parent, text |-> <<>>, attrs |-> {}]

TagWith(name, attrs, parent) ==
    [kind |-> "tag", name |-> name, parent |-> parent, text |-> <<>>, attrs |-> attrs]

Meta(attr_name, content, parent) ==
    TagWith("meta",
            {<<"name", <<attr_name>>>>}
                \cup (IF content.some THEN {<<"content", content.val>>} ELSE {}),
            parent)

Str(s, parent) ==
    [kind |-> "text", name |-> "", parent |-> parent, text |-> s, attrs |-> {}]

Comment(s, parent) ==
    [kind |-> "comment", name |-> "", parent |-> parent, text |-> s, attrs |-> {}]

\* every node the parser built
Ids == 1..Len(nodes)

IsTag(n) == nodes[n].kind = "tag"

RECURSIVE Ancestors(_, _)
\* the chain of parents of node n in document d, the root 0 excluded
Ancestors(d, n) ==
    IF d[n].parent = 0 THEN {} ELSE {d[n].parent} \cup Ancestors(d, d[n].parent)

\* n and everything below it
Subtree(n) == {n} \cup {m \in Ids : n \in Ancestors(nodes, m)}

\* what is below n (n = 0: the whole document) and attached, in document order
Descendants(a, n) ==
    IF n = 0 THEN a ELSE {m \in a : n \in Ancestors(nodes, m)}

RECURSIVE SetToSeq(_)
\* a set of node indices as the sequence in document order
SetToSeq(S) ==
    IF S = {} THEN <<>>
    ELSE LET m == CHOOSE x \in S : \A y \in S : x <= y
         IN <<m>> \o SetToSeq(S \ {m})

\* the children of n, the last one first
Children_reversed(a, n) ==
    LET s == SetToSeq({m \in a : nodes[m].parent = n})
    IN [i \in 1..Len(s) |-> s[Len(s) + 1 - i]]

\* node.children
Children(a, n) == SetToSeq({m \in a : nodes[m].parent = n})

\* Tag.decompose(): the tag and its subtree leave the tree; on a tag that was
\* already destroyed it changes nothing
Decompose(a, n) == a \ Subtree(n)

RECURSIVE JoinText(_, _)
JoinText(t, ids) ==
    IF ids = <<>> THEN <<>> ELSE t[Head(ids)] \o JoinText(t, Tail(ids))

\* tag.text / get_text(): the NavigableStrings below the tag, concatenated
\* (comments are not included; a destroyed tag has no contents)
GetText(a, t, n) ==
    IF n # 0 /\ n \notin a THEN <<>>
    ELSE JoinText(t, SetToSeq({m \in Descendants(a, n) : nodes[m].kind = "text"}))

RECURSIVE JoinStripped(_, _)
JoinStripped(t, ids) ==
    IF ids = <<>> THEN <<>> ELSE Strip(t[Head(ids)]) \o JoinStripped(t, Tail(ids))

\* get_text(strip=True): every string stripped, the empty ones dropped, joined by ""
GetTextStrip(a, t, n) ==
    IF n # 0 /\ n \notin a THEN <<>>
    ELSE JoinStripped(t, SetToSeq({m \in Descendants(a, n) : nodes[m].kind = "text"}))

-----------------------------------------------------------------------------
(* The documents the model draws its input from *)

\* the strings of the text nodes: whitespace only, one word, padded words
Blank == <<"\n", " ">>

Word == <<"x">>

Padded == <<" ", "y", " ", "\t", "z", "\n">>

Strings == {Blank, Word, Padded}

\* where the next node in document order can be attached: the root, or an
\* element on the path from the last node up to the root that may have children
AttachPoints(d) ==
    IF d = <<>> THEN {0}
    ELSE {0} \cup
         {n \in {Len(d)} \cup Ancestors(d, Len(d)) :
             d[n].kind = "tag" /\ d[n].name \notin VoidTags}

\* html5lib merges adjacent character data: a text node never follows a text
\* sibling in a freshly parsed tree
AfterText(d, p) ==
    d # <<>> /\ d[Len(d)].kind = "text" /\ d[Len(d)].parent = p

Extensions(d, names, strings, comments) ==
    UNION {
        {Tag(nm, p) : nm \in names}
            \cup (IF AfterText(d, p) THEN {} ELSE {Str(s, p) : s \in strings})
            \cup {Comment(s, p) : s \in comments}
        : p \in AttachPoints(d) }

CleanerNames == {"div", "img", "nav"}

DetectorNames == {"article", "div", "section", "body"}

\* a document as html5lib builds it: html > (head > metas and titles, body > content)
HeadItems ==
    { <<Meta(nm, Some(<<"C">>), 2)>> :
        nm \in {"citation_title", "citation_journal_title", "citation_doi",
                "description"} }
    \cup { <<Meta("citation_author", c, 2)>> : c \in {Some(<<"A">>), Some(<<"B">>), Some(<<>>)} }
    \cup { <<Meta("citation_publication_date", Some(<<"2020-01-15T10:00:00">>), 2)>> }

\* the title element and its text, as children of head, placed after d
TitleItems(d) == { <<Tag("title", 2), Str(s, Len(d) + 1)>> : s \in Strings }

\* the contents of body the documents are given, parents counted from body (0)
Bodies ==
    { <<>>,
      <<Str(Word, 0)>>,
      <<Tag("img", 0)>>,
      <<Tag("article", 0), Str(Padded, 1)>>,
      <<Tag("article", 0), Tag("img", 1)>>,
      <<Tag("div", 0), Str(Word, 1)>>,
      <<Tag("div", 0), Str(Blank, 1)>>,
      <<Str(Blank, 0), Tag("div", 0), Str(Word, 2), Tag("article", 0), Str(Word, 4)>> }

\* the nodes of b with their parents counted from index k
Shift(b, k) == [i \in 1..Len(b) |-> [b[i] EXCEPT !.parent = @ + k]]

-----------------------------------------------------------------------------
(* bs4 lookups *)

\* the soup object, as the parent of the top-level nodes
Soup == 0

\* the None a lookup returns when nothing matches
NoNode == -1

\* soup.find_all(): every attached Tag, in document order
AllTags(a) == SetToSeq({n \in a : IsTag(n)})

\* soup.select(sel) / soup.find_all(names): attached tags of these names
TagsNamed(a, names) == SetToSeq({n \in a : IsTag(n) /\ nodes[n].name \in names})

\* soup.find(name): the first match in document order, or None
Find(a, name) ==
    LET found == TagsNamed(a, {name}) IN IF found = <<>> THEN NoNode ELSE Head(found)

\* tag.get(key): the value of the attribute, or None
Get(n, key) ==
    IF \E p \in nodes[n].attrs : p[1] = key
    THEN Some((CHOOSE p \in nodes[n].attrs : p[1] = key)[2])
    ELSE None

\* soup.find_all("meta", attrs={"name": attr_name})
MetasNamed(a, attr_name) ==
    SetToSeq({n \in a : IsTag(n) /\ nodes[n].name = "meta"
                          /\ Get(n, "name") = Some(<<attr_name>>)})

FindMeta(a, attr_name) ==
    LET found == MetasNamed(a, attr_name) IN IF found = <<>> THEN NoNode ELSE Head(found)

\* m.get("content")
GetContent(n) == Get(n, "content")

-----------------------------------------------------------------------------
(* HTMLParserService._strip_unwanted *)

selectors ==
    <<"header", "footer", "nav", "aside", "script", "style", "noscript", "iframe", "form">>

RECURSIVE DecomposeEach(_, _)
\* for tag in tags: tag.decompose()
DecomposeEach(a, tags) ==
    IF tags = <<>> THEN a ELSE DecomposeEach(Decompose(a, Head(tags)), Tail(tags))

RECURSIVE StripSelectorsFrom(_, _)
\* for sel in selectors: for tag in soup.select(sel): tag.decompose()
StripSelectorsFrom(a, sels) ==
    IF sels = <<>> THEN a
    ELSE StripSelectorsFrom(DecomposeEach(a, TagsNamed(a, {Head(sels)})), Tail(sels))

RECURSIVE StripFirstOnlyFrom(_, _)
\* soup.find(sel) in place of soup.select(sel): only the first match goes
StripFirstOnlyFrom(a, sels) ==
    IF sels = <<>> THEN a
    ELSE StripFirstOnlyFrom(
             IF Find(a, Head(sels)) = NoNode THEN a ELSE Decompose(a, Find(a, Head(sels))),
             Tail(sels))

strip_selectors_first(a) == StripFirstOnlyFrom(a, selectors)

strip_selectors(a) == StripSelectorsFrom(a, selectors)

\* for comment in soup.find_all(string=<is a Comment>): comment.extract()
strip_comments(a) == a \ {n \in a : nodes[n].kind = "comment"}

\* not tag.text: the strip() forgotten
Textless_unstripped(a, t, n) == GetText(a, t, n) = <<>>

\* only the text nodes that are children of the tag itself are looked at
Textless_own(a, t, n) ==
    \A m \in a : (nodes[m].parent = n /\ nodes[m].kind = "text") => Strip(t[m]) = <<>>

\* not tag.text.strip()
Textless(a, t, n) == Strip(GetText(a, t, n)) = <<>>

\* tag.name (a destroyed tag has none)
NameOf(a, n) == IF n \in a THEN nodes[n].name ELSE ""

RECURSIVE StripEmptyEach(_, _, _)
\* for tag in <the list find_all() returned>: if empty and not img: tag.decompose()
StripEmptyEach(a, t, tags) ==
    IF tags = <<>> THEN a
    ELSE LET tag == Head(tags)
             a2 == IF Textless(a, t, tag) /\ ~(NameOf(a, tag) = "img")
                   THEN Decompose(a, tag) ELSE a
         IN StripEmptyEach(a2, t, Tail(tags))

\* one pass that removes only the elements without children
strip_empty_leaves(a, t) ==
    a \ {n \in a : IsTag(n) /\ ~(nodes[n].name = "img")
                     /\ ~(\E m \in a : nodes[m].parent = n)}

\* the empty-element pass as it would have run on the tree before the denylist
\* and comment removal
strip_empty_early(a, t) == a \cap StripEmptyEach(before[1], before[2], AllTags(before[1]))

strip_empty(a, t) == StripEmptyEach(a, t, AllTags(a))

\* for text_node in soup.find_all(string=True): replace_with(clean_text(...))
normalize_whitespace(a, t) ==
    [n \in DOMAIN t |->
        IF n \in a /\ nodes[n].kind = "text" THEN clean_text(t[n]) ELSE t[n]]

-----------------------------------------------------------------------------
(* app/utils/extractors.py *)

\* the length of the text nodes that are children of n itself
Length_own(a, t, n) ==
    Len(JoinStripped(t, SetToSeq({m \in a : nodes[m].parent = n /\ nodes[m].kind = "text"})))

Length(a, t, n) == Len(GetTextStrip(a, t, n))

RECURSIVE MaxByLength_last(_, _, _, _)
\* a maximum that moves on to every later element of an equal key
MaxByLength_last(a, t, best, rest) ==
    IF rest = <<>> THEN best
    ELSE IF Length(a, t, Head(rest)) >= Length(a, t, best)
         THEN MaxByLength_last(a, t, Head(rest), Tail(rest))
         ELSE MaxByLength_last(a, t, best, Tail(rest))

RECURSIVE MaxByLength(_, _, _, _)
\* max(iterable, key=...): the first element is kept until a strictly greater
\* key is met
MaxByLength(a, t, best, rest) ==
    IF rest = <<>> THEN best
    ELSE IF Length(a, t, Head(rest)) > Length(a, t, best)
         THEN MaxByLength(a, t, Head(rest), Tail(rest))
         ELSE MaxByLength(a, t, best, Tail(rest))

\* the article element ranked by length among the div and section elements
detect_by_length_only(a, t) ==
    LET candidates == TagsNamed(a, {"article", "div", "section"})
        body == Find(a, "body")
    IN IF candidates = <<>> THEN (IF body # NoNode THEN body ELSE Soup)
       ELSE MaxByLength(a, t, Head(candidates), Tail(candidates))

\* default=soup.body, without the "or soup"
detect_default_body(a, t) ==
    LET article_tag == Find(a, "article")
        candidates == TagsNamed(a, {"div", "section"})
    IN IF article_tag # NoNode THEN article_tag
       ELSE IF candidates = <<>> THEN Find(a, "body")
       ELSE MaxByLength(a, t, Head(candidates), Tail(candidates))

detect_main_content(a, t) ==
    LET article_tag == Find(a, "article")
        candidates == TagsNamed(a, {"div", "section"})
        body == Find(a, "body")
    IN IF article_tag # NoNode THEN article_tag
       ELSE IF candidates = <<>> THEN (IF body # NoNode THEN body ELSE Soup)
       ELSE MaxByLength(a, t, Head(candidates), Tail(candidates))

\* pydantic's validation of Optional[datetime]: the strings it accepts
DatetimeStrings == {<<"2020-01-15T10:00:00">>}

\* the datetime object pydantic builds from an accepted string
Datetime(s) == <<"datetime">> \o s

RECURSIVE Contents(_)
Contents(ms) ==
    IF ms = <<>> THEN <<>>
    ELSE (IF GetContent(Head(ms)).some /\ GetContent(Head(ms)).val # <<>>
          THEN <<GetContent(Head(ms)).val>> ELSE <<>>) \o Contents(Tail(ms))

\* an empty string in place of None for a missing meta element
MetaField_placeholder(a, attr_name) ==
    LET m == FindMeta(a, attr_name) IN IF m # NoNode THEN GetContent(m) ELSE Some(<<>>)

\* find(meta) -> content, or None
MetaField(a, attr_name) ==
    LET m == FindMeta(a, attr_name) IN IF m # NoNode THEN GetContent(m) ELSE None

\* the record extract_metadata builds, before ArticleMetadata validates it
extract_fields(a, t) ==
    LET title_meta == FindMeta(a, "citation_title")
        title_tag == IF title_meta # NoNode THEN title_meta ELSE Find(a, "title")
        authors == Contents(MetasNamed(a, "citation_author"))
    IN [title |-> IF title_tag # NoNode /\ nodes[title_tag].name = "meta"
                  THEN GetContent(title_tag)
                  ELSE IF title_tag # NoNode THEN Some(GetText(a, t, title_tag))
                  ELSE None,
        authors |-> IF authors # <<>> THEN Some(authors) ELSE None,
        publication_date |-> MetaField(a, "citation_publication_date"),
        journal |-> MetaField(a, "citation_journal_title"),
        doi |-> MetaField(a, "citation_doi"),
        keywords |-> None,
        abstract |-> MetaField(a, "description")]

\* ArticleMetadata(...) raises a ValidationError on a publication date that is
\* no datetime
ValidationFails(f) ==
    f.publication_date.some /\ f.publication_date.val \notin DatetimeStrings

extract_metadata(a, t) ==
    LET f == extract_fields(a, t)
    IN IF f.publication_date.some /\ ~ValidationFails(f)
       THEN [f EXCEPT !.publication_date = Some(Datetime(f.publication_date.val))]
       ELSE f

-----------------------------------------------------------------------------
(* MarkdownService (app/services/markdown.py) *)

RECURSIVE Join(_, _)
\* sep.join(parts)
Join(sep, parts) ==
    IF parts = <<>> THEN <<>>
    ELSE IF Len(parts) = 1 THEN Head(parts)
    ELSE Head(parts) \o sep \o Join(sep, Tail(parts))

RECURSIVE Split(_, _)
\* s.split(c): always at least one part
Split(s, c) ==
    IF \A i \in 1..Len(s) : s[i] # c THEN <<s>>
    ELSE LET i == CHOOSE k \in 1..Len(s) : s[k] = c /\ \A j \in 1..(k - 1) : s[j] # c
         IN <<SubSeq(s, 1, i - 1)>> \o Split(SubSeq(s, i + 1, Len(s)), c)

\* every part kept, the empty ones too
KeepAll(parts) == parts

RECURSIVE KeepNonEmpty(_)
\* part for part in parts if part
KeepNonEmpty(parts) ==
    IF parts = <<>> THEN <<>>
    ELSE (IF Head(parts) # <<>> THEN <<Head(parts)>> ELSE <<>>)
         \o KeepNonEmpty(Tail(parts))

RECURSIVE KeepNonBlank(_)
\* text for text in inner_text if text.strip()
KeepNonBlank(parts) ==
    IF parts = <<>> THEN <<>>
    ELSE (IF Strip(Head(parts)) # <<>> THEN <<Head(parts)>> ELSE <<>>)
         \o KeepNonBlank(Tail(parts))

DigitChars == <<"0", "1", "2", "3", "4", "5", "6", "7", "8", "9">>

RECURSIVE Decimal(_)
\* str(idx)
Decimal(i) ==
    IF i < 10 THEN <<DigitChars[i + 1]>>
    ELSE Decimal(i \div 10) \o <<DigitChars[(i % 10) + 1]>>

\* the grave accent of code spans and fences (the character itself cannot be
\* written in a string of this language)
Backtick == "GRAVE"

Fence == <<Backtick, Backtick, Backtick>>

heading_map ==
    [h1 |-> <<"#", " ">>, h2 |-> <<"#", "#", " ">>, h3 |-> <<"#", "#", "#", " ">>,
     h4 |-> <<"#", "#", "#", "#", " ">>, h5 |-> <<"#", "#", "#", "#", "#", " ">>,
     h6 |-> <<"#", "#", "#", "#", "#", "#", " ">>]

\* the exception a step of the converter raises, as an element no string holds
IndexError == "IndexError"

\* an exception escaped the conversion that produced r
Raises(r) == \E i \in 1..Len(r) : r[i] = IndexError

\* node.get(attr): the default forgotten
GetAttr_empty(opt, default) == IF opt.some THEN opt.val ELSE <<>>

\* node.get(attr, default)
GetAttr(opt, default) == IF opt.some THEN opt.val ELSE default

\* node.find(headings, recursive=True)
HasHeading(a, n) ==
    \E m \in Descendants(a, n) : IsTag(m) /\ nodes[m].name \in DOMAIN heading_map

RECURSIVE Indent(_)
\* "  " + line for line in lines
Indent(lines) ==
    IF lines = <<>> THEN <<>> ELSE <<<<" ", " ">> \o Head(lines)>> \o Indent(Tail(lines))

RECURSIVE Quote(_)
\* f"> {line}" for line in lines
Quote(lines) ==
    IF lines = <<>> THEN <<>> ELSE <<<<">", " ">> \o Head(lines)>> \o Quote(Tail(lines))

RECURSIVE CellTexts(_, _, _)
\* cell_text(c) for c in cells
CellTexts(a, t, cells) ==
    IF cells = <<>> THEN <<>>
    ELSE <<GetTextStrip(a, t, Head(cells))>> \o CellTexts(a, t, Tail(cells))

\* every row filled with the cells of the header row
Cells_of_header(a, row) ==
    SetToSeq({m \in Descendants(a, Find(a, "tr")) : IsTag(m) /\ nodes[m].name \in {"th", "td"}})

\* row.find_all(["th", "td"])
Cells(a, row) ==
    SetToSeq({m \in Descendants(a, row) : IsTag(m) /\ nodes[m].name \in {"th", "td"}})

\* a separator of one column whatever the header
Dashes_one(cells) == << <<"-", "-", "-">> >>

RECURSIVE Dashes(_)
\* ["---" for _ in header_cells]
Dashes(cells) ==
    IF cells = <<>> THEN <<>> ELSE <<<<"-", "-", "-">>>> \o Dashes(Tail(cells))

RECURSIVE TableRows(_, _, _)
TableRows(a, t, rows) ==
    IF rows = <<>> THEN <<>>
    ELSE << <<"|", " ">> \o Join(<<" ", "|", " ">>, CellTexts(a, t, Cells(a, Head(rows))))
            \o <<" ", "|">> >> \o TableRows(a, t, Tail(rows))

\* node.find_all("tr")
Rows(a, n) == SetToSeq({m \in Descendants(a, n) : IsTag(m) /\ nodes[m].name = "tr"})

\* markdown.py 127-135: the lines of a table that has rows
table_lines(a, t, rows) ==
    LET header_cells == Cells(a, rows[1])
        header == Join(<<" ", "|", " ">>, CellTexts(a, t, header_cells))
        separator == Join(<<" ", "|", " ">>, Dashes(header_cells))
    IN Join(<<"\n">>,
            << <<"|", " ">> \o header \o <<" ", "|">>,
               <<"|", " ">> \o separator \o <<" ", "|">> >>
            \o TableRows(a, t, Tail(rows)))

\* without "if not rows: return": rows[0] raises on a table without rows
convert_table_unguarded(a, t, n) ==
    IF Rows(a, n) = <<>> THEN <<IndexError>> ELSE table_lines(a, t, Rows(a, n))

convert_table(a, t, n) ==
    IF Rows(a, n) = <<>> THEN <<>> ELSE table_lines(a, t, Rows(a, n))

RECURSIVE convert_node(_, _, _)
RECURSIVE convert_list(_, _, _)
RECURSIVE ConvertEach(_, _, _)
RECURSIVE ListItemParts(_, _, _)
RECURSIVE ListLines(_, _, _, _, _)

\* self._convert_node(child) for child in children
ConvertEach(a, t, ids) ==
    IF ids = <<>> THEN <<>>
    ELSE <<convert_node(a, t, Head(ids))>> \o ConvertEach(a, t, Tail(ids))

convert_node(a, t, n) ==
    LET name == nodes[n].name
        inner == ConvertEach(a, t, Children(a, n))
        flat == GetTextStrip(a, t, n)
    IN IF ~IsTag(n) THEN Strip(t[n])
       ELSE IF name \in DOMAIN heading_map THEN heading_map[name] \o flat
       ELSE IF name \in {"p", "div"} THEN Join(<<" ">>, KeepNonBlank(inner))
       ELSE IF name \in {"ul", "ol"} THEN convert_list(a, t, n)
       ELSE IF name = "li" THEN <<"-", " ">> \o Join(<<" ">>, KeepNonBlank(inner))
       ELSE IF name = "img"
            THEN <<"!", "[">> \o GetAttr(Get(n, "alt"), <<>>) \o <<"]", "(">>
                 \o GetAttr(Get(n, "src"), <<>>) \o <<")">>
       ELSE IF name = "a"
            THEN <<"[">> \o flat \o <<"]", "(">> \o GetAttr(Get(n, "href"), <<"#">>)
                 \o <<")">>
       ELSE IF name = "table" THEN convert_table(a, t, n)
       ELSE IF name \in {"strong", "b"} THEN <<"*", "*">> \o flat \o <<"*", "*">>
       ELSE IF name \in {"em", "i"} THEN <<"*">> \o flat \o <<"*">>
       ELSE IF name = "code" THEN <<Backtick>> \o flat \o <<Backtick>>
       ELSE IF name = "pre"
            THEN Fence \o <<"\n">> \o GetText(a, t, n) \o <<"\n">> \o Fence
       ELSE IF name = "blockquote" THEN Join(<<"\n">>, Quote(Split(flat, "\n")))
       ELSE IF HasHeading(a, n) THEN Join(<<"\n", "\n">>, KeepNonEmpty(inner))
       ELSE flat

\* the converted children of one li, nested lists indented
ListItemParts(a, t, ids) ==
    IF ids = <<>> THEN <<>>
    ELSE LET child == Head(ids)
             part == IF IsTag(child) /\ nodes[child].name \in {"ul", "ol"}
                     THEN <<"\n">> \o Join(<<"\n">>,
                              Indent(Split(convert_list(a, t, child), "\n")))
                     ELSE convert_node(a, t, child)
         IN <<part>> \o ListItemParts(a, t, Tail(ids))

\* one line per li of lis, numbered from idx
ListLines(a, t, ordered, idx, lis) ==
    IF lis = <<>> THEN <<>>
    ELSE LET prefix == IF ordered THEN Decimal(idx) \o <<".", " ">> ELSE <<"-", " ">>
             inner_text == ListItemParts(a, t, Children(a, Head(lis)))
         IN <<prefix \o Join(<<" ">>, KeepNonBlank(inner_text))>>
            \o ListLines(a, t, ordered, idx + 1, Tail(lis))

convert_list(a, t, n) ==
    LET lis == SetToSeq({m \in a : nodes[m].parent = n /\ IsTag(m) /\ nodes[m].name = "li"})
    IN Join(<<"\n">>, ListLines(a, t, nodes[n].name = "ol", 1, lis))

\* MarkdownService.convert
convert(a, t, n) ==
    Join(<<"\n", "\n">>, KeepNonEmpty(ConvertEach(a, t, Children(a, n))))

-----------------------------------------------------------------------------
(* WebhookService (app/services/webhook.py) *)

\* no WebhookService call is in progress
NoDelivery ==
    [pc |-> "none", url |-> FALSE, max_retries |-> 0, attempt |-> 0, backoffs |-> 0,
     log |-> <<>>, raised |-> FALSE]

\* what requests.post ends with: a response with this status code, or an
\* exception (a timeout, a refused connection)
Outcomes ==
    {[kind |-> "response", status |-> c] : c \in {200, 204, 302, 404, 500}}
    \cup {[kind |-> "exception", status |-> 0]}

\* resp.status_code // 100 == 2
IsSuccess(o) == o.kind = "response" /\ o.status \div 100 = 2

\* one attempt more than max_retries before giving up
GiveUp_late(w) == w.attempt = w.max_retries + 1

\* attempt == self.max_retries
GiveUp(w) == w.attempt = w.max_retries

\* WebhookService(max_retries), settings.WEBHOOK_URL set or not, deliver not
\* yet called
InitWebhook ==
    /\ nodes = <<>>
    /\ alive = {}
    /\ text = <<>>
    /\ pc = "parsing"
    /\ runs = 0
    /\ before = <<{}, <<>>>>
    /\ article_node = NoNode
    /\ metadata = None
    /\ markdown = None
    /\ raised = FALSE
    /\ \E u \in BOOLEAN, m \in 1..MaxRetries :
          webhook = [NoDelivery EXCEPT !.pc = "called", !.url = u, !.max_retries = m]

\* webhook.py 31-45: deliver returns at once without a URL, else it enters
\* the loop with attempt 1 (delay = 1.0: no backoff applied yet)
DeliverCall ==
    /\ webhook.pc = "called"
    /\ webhook' = IF ~webhook.url THEN [webhook EXCEPT !.pc = "returned"]
                  ELSE [webhook EXCEPT !.pc = "attempt", !.attempt = 1]
    /\ UNCHANGED <<nodes, alive, text, pc, runs, before, article_node, metadata, markdown,
                   raised>>

\* webhook.py 46-62: one requests.post; a 2xx response ends the call, any
\* other response or exception is caught, and ends the call on the last attempt
DeliverPost ==
    /\ webhook.pc = "attempt"
    /\ \E o \in Outcomes :
          webhook' = [webhook EXCEPT
                         !.log = Append(@, [event |-> "post", outcome |-> o]),
                         !.pc = IF IsSuccess(o) \/ GiveUp(webhook)
                                THEN "returned" ELSE "sleeping"]
    /\ UNCHANGED <<nodes, alive, text, pc, runs, before, article_node, metadata, markdown,
                   raised>>

\* webhook.py 63-64 and 45: time.sleep(delay), delay *= backoff_factor, next attempt
DeliverSleep ==
    /\ webhook.pc = "sleeping"
    /\ webhook' = [webhook EXCEPT !.log = Append(@, [event |-> "sleep",
                                                        outcome |-> [kind |-> "delay",
                                                                     status |-> webhook.backoffs]]),
                                  !.backoffs = @ + 1,
                                  !.attempt = @ + 1,
                                  !.pc = "attempt"]
    /\ UNCHANGED <<nodes, alive, text, pc, runs, before, article_node, metadata, markdown,
                   raised>>

NextWebhook == DeliverCall \/ DeliverPost \/ DeliverSleep

SpecWebhook == InitWebhook /\ [][NextWebhook]_vars

-----------------------------------------------------------------------------
(* The call: HTMLParserService.parse on a parsed document *)

\* parser.py 64: html5lib has built nothing yet
Init ==
    /\ nodes = <<>>
    /\ alive = {}
    /\ text = <<>>
    /\ pc = "parsing"
    /\ runs = 0
    /\ before = <<{}, <<>>>>
    /\ article_node = NoNode
    /\ metadata = None
    /\ markdown = None
    /\ raised = FALSE
    /\ webhook = NoDelivery

\* the tree builder appends the nodes ns, the next in document order
Built(ns) ==
    /\ nodes' = nodes \o ns
    /\ alive' = 1..(Len(nodes) + Len(ns))
    /\ text' = text \o [i \in 1..Len(ns) |-> ns[i].text]

\* the tree builder inserts one more node of an arbitrary small tree
BuildNode(names, strings, comments) ==
    /\ pc = "parsing"
    /\ Len(nodes) < MaxNodes
    /\ \E nd \in Extensions(nodes, names, strings, comments) : Built(<<nd>>)
    /\ UNCHANGED <<pc, runs, before, article_node, metadata, markdown, raised, webhook>>

\* trees for _strip_unwanted
BuildCleanerNode == BuildNode(CleanerNames, Strings, {Word})

\* trees for detect_main_content
BuildDetectorNode == BuildNode(DetectorNames, {Word, Padded}, {})

\* parser.py 64-67: the tree is complete and _strip_unwanted is called on it
Parsed ==
    /\ pc = "parsing"
    /\ pc' = "selectors"
    /\ before' = <<alive, text>>
    /\ UNCHANGED <<nodes, alive, text, runs, article_node, metadata, markdown, raised, webhook>>

\* parser.py 64, on a full document: html5lib has opened html and head
InitParse ==
    /\ nodes = <<Tag("html", 0), Tag("head", 1)>>
    /\ alive = {1, 2}
    /\ text = <<<<>>, <<>>>>
    /\ pc = "parsing"
    /\ runs = 0
    /\ before = <<{}, <<>>>>
    /\ article_node = NoNode
    /\ metadata = None
    /\ markdown = None
    /\ raised = FALSE
    /\ webhook = NoDelivery

\* one more meta or title element in head
BuildHeadItem ==
    /\ pc = "parsing"
    /\ Cardinality({n \in 1..Len(nodes) : nodes[n].parent = 2}) < MaxHead
    /\ \E it \in HeadItems \cup TitleItems(nodes) : Built(it)
    /\ UNCHANGED <<pc, runs, before, article_node, metadata, markdown, raised, webhook>>

\* parser.py 64-67: body and its contents end the document, and _strip_unwanted
\* is called on it
BuildBody ==
    /\ pc = "parsing"
    /\ \E b \in Bodies : Built(<<Tag("body", 1)>> \o Shift(b, Len(nodes) + 1))
    /\ pc' = "selectors"
    /\ before' = <<alive', text'>>
    /\ UNCHANGED <<runs, article_node, metadata, markdown, raised, webhook>>

\* parser.py 90-103: the denylisted elements
StripSelectors ==
    /\ pc = "selectors"
    /\ alive' = strip_selectors(alive)
    /\ pc' = "comments"
    /\ UNCHANGED <<nodes, text, runs, before, article_node, metadata, markdown, raised, webhook>>

\* parser.py 105-107: the comments
StripComments ==
    /\ pc = "comments"
    /\ alive' = strip_comments(alive)
    /\ pc' = "empty"
    /\ UNCHANGED <<nodes, text, runs, before, article_node, metadata, markdown, raised, webhook>>

\* parser.py 109-112: the empty tags
StripEmpty ==
    /\ pc = "empty"
    /\ alive' = strip_empty(alive, text)
    /\ pc' = "whitespace"
    /\ UNCHANGED <<nodes, text, runs, before, article_node, metadata, markdown, raised, webhook>>

\* parser.py 114-118: the text nodes; _strip_unwanted returns
NormalizeWhitespace ==
    /\ pc = "whitespace"
    /\ text' = normalize_whitespace(alive, text)
    /\ pc' = "cleaned"
    /\ runs' = runs + 1
    /\ UNCHANGED <<nodes, alive, before, article_node, metadata, markdown, raised, webhook>>

\* _strip_unwanted is called once more on the tree it has cleaned
StripAgain ==
    /\ pc = "cleaned"
    /\ runs < MaxRuns
    /\ before' = <<alive, text>>
    /\ pc' = "selectors"
    /\ UNCHANGED <<nodes, alive, text, runs, article_node, metadata, markdown, raised, webhook>>

\* parser.py 70
DetectMainContent ==
    /\ pc = "cleaned"
    /\ article_node' = detect_main_content(alive, text)
    /\ pc' = "detected"
    /\ UNCHANGED <<nodes, alive, text, runs, before, metadata, markdown, raised, webhook>>

\* parser.py 74
ExtractMetadata ==
    /\ pc = "detected"
    /\ IF ValidationFails(extract_fields(alive, text))
       THEN raised' = TRUE /\ pc' = "raised" /\ UNCHANGED metadata
       ELSE /\ metadata' = Some(extract_metadata(alive, text))
            /\ pc' = "extracted"
            /\ UNCHANGED raised
    /\ UNCHANGED <<nodes, alive, text, runs, before, article_node, markdown, webhook>>

\* a converter that detaches every node it has rendered
Convert_consuming ==
    /\ pc = "extracted"
    /\ markdown' = Some(convert(alive, text, article_node))
    /\ alive' = alive \ Descendants(alive, article_node)
    /\ pc' = "done"
    /\ UNCHANGED <<nodes, text, runs, before, article_node, metadata, raised, webhook>>

\* parser.py 78-81
Convert ==
    /\ pc = "extracted"
    /\ markdown' = Some(convert(alive, text, article_node))
    /\ pc' = "done"
    /\ UNCHANGED <<nodes, alive, text, runs, before, article_node, metadata, raised, webhook>>

\* _strip_unwanted and the rest of parse
Pipeline ==
    \/ StripSelectors
    \/ StripComments
    \/ StripEmpty
    \/ NormalizeWhitespace
    \/ StripAgain
    \/ DetectMainContent
    \/ ExtractMetadata
    \/ Convert

\* _strip_unwanted on arbitrary small trees
Next == BuildCleanerNode \/ Parsed \/ Pipeline

Spec == Init /\ [][Next]_vars

\* detect_main_content on trees of article, div, section and body elements
NextDetect == BuildDetectorNode \/ Parsed \/ Pipeline

SpecDetect == Init /\ [][NextDetect]_vars

\* parse on documents with a head of meta and title elements
NextParse == BuildHeadItem \/ BuildBody \/ Pipeline

SpecParse == InitParse /\ [][NextParse]_vars

-----------------------------------------------------------------------------
(* MarkdownService.convert called on a tree as it is *)

\* a word followed by the space that separates it from the next element
Trail == <<"y", " ">>

\* markdown.py 21-26: convert(node) on the root of the tree
ConvertCall ==
    /\ pc = "parsing"
    /\ nodes # <<>>
    /\ LET r == convert(alive, text, Soup)
       IN IF Raises(r)
          THEN raised' = TRUE /\ pc' = "raised" /\ UNCHANGED markdown
          ELSE markdown' = Some(r) /\ pc' = "converted" /\ UNCHANGED raised
    /\ article_node' = Soup
    /\ UNCHANGED <<nodes, alive, text, runs, before, metadata, webhook>>

HeadingNames == {"h2", "b", "p"}

\* trees of headings with nested formatting
BuildHeadingNode == BuildNode(HeadingNames, {Word, Trail, Blank}, {})

NextHeading == BuildHeadingNode \/ ConvertCall

SpecHeading == Init /\ [][NextHeading]_vars

ListNames == {"ol", "ul", "li"}

\* trees of lists, items and nested lists
BuildListNode == BuildNode(ListNames, {Word}, {})

NextList == BuildListNode \/ ConvertCall

SpecList == Init /\ [][NextList]_vars

TableNames == {"table", "tr", "td", "th"}

\* trees of tables, rows and cells
BuildTableNode == BuildNode(TableNames, {Word}, {})

NextTable == BuildTableNode \/ ConvertCall

SpecTable == Init /\ [][NextTable]_vars

\* links and images, with and without their attributes
InlineTags ==
    { TagWith("a", at, 0) : at \in {{}, {<<"href", <<"u">>>>}} }
    \cup { TagWith("img", at, 0) :
             at \in SUBSET {<<"alt", <<"t">>>>, <<"src", <<"s">>>>} }

\* trees of a and img elements and text
BuildInlineNode ==
    /\ pc = "parsing"
    /\ Len(nodes) < MaxNodes
    /\ \E p \in AttachPoints(nodes) :
          \/ \E tpl \in InlineTags : Built(<<[tpl EXCEPT !.parent = p]>>)
          \/ ~AfterText(nodes, p) /\ Built(<<Str(Word, p)>>)
    /\ UNCHANGED <<pc, runs, before, article_node, metadata, markdown, raised, webhook>>

NextInline == BuildInlineNode \/ ConvertCall

SpecInline == Init /\ [][NextInline]_vars

ConverterNames == {"div", "li", "ul", "table", "span", "h1"}

\* trees of blocks, lists, stray items, tables and unknown elements
BuildConverterNode == BuildNode(ConverterNames, {Word, Blank}, {Word})

NextConvert == BuildConverterNode \/ ConvertCall

SpecConvert == Init /\ [][NextConvert]_vars

-----------------------------------------------------------------------------
(* Concurrent parse calls on _auto_parser (app/main.py 50, 65, 106).  The
   nodes of all the trees live in one heap (nodes, alive, text); a call owns
   the tree below the soup it built, and its locals (pc, article_node,
   metadata, markdown) are held per call. *)

\* the calls, numbered as they arrive
Calls == 1..MaxCalls

\* the document elements of the trees in the heap, one per call received
Roots == SetToSeq({n \in Ids : nodes[n].parent = 0})

\* the nodes of the tree that call c built
Own(c) == Subtree(Roots[c])

\* every tree of the heap, as an instance field shared by the calls would hold
CallTree_shared(c) == alive

\* soup, the local variable of call c: the attached nodes of its own tree
CallTree(c) == alive \cap Own(c)

\* the document html5lib builds around the body contents b
Doc(b) == <<Tag("html", 0), Tag("head", 1), Tag("body", 1)>> \o Shift(b, 3)

\* the nodes of d placed in the heap after k older nodes
Place(d, k) ==
    [i \in 1..Len(d) |-> [d[i] EXCEPT !.parent = IF @ = 0 THEN 0 ELSE @ + k]]

InitCalls ==
    /\ nodes = <<>>
    /\ alive = {}
    /\ text = <<>>
    /\ pc = [c \in Calls |-> "idle"]
    /\ runs = 0
    /\ before = <<{}, <<>>>>
    /\ article_node = [c \in Calls |-> NoNode]
    /\ metadata = [c \in Calls |-> None]
    /\ markdown = [c \in Calls |-> None]
    /\ raised = FALSE
    /\ webhook = NoDelivery

\* parser.py 60-67: the next call arrives, builds its own soup and calls
\* _strip_unwanted on it
CallParse(c) ==
    /\ pc[c] = "idle"
    /\ c = Len(Roots) + 1
    /\ \E b \in Bodies :
          LET d == Place(Doc(b), Len(nodes))
          IN /\ nodes' = nodes \o d
             /\ alive' = alive \cup (Len(nodes) + 1)..(Len(nodes) + Len(d))
             /\ text' = text \o [i \in 1..Len(d) |-> d[i].text]
    /\ pc' = [pc EXCEPT ![c] = "selectors"]
    /\ UNCHANGED <<runs, before, article_node, metadata, markdown, raised, webhook>>

\* what call c leaves of the heap when its own tree becomes a
Put(c, a) == (alive \ Own(c)) \cup a

\* parser.py 90-103
CallStripSelectors(c) ==
    /\ pc[c] = "selectors"
    /\ alive' = Put(c, strip_selectors(CallTree(c)))
    /\ pc' = [pc EXCEPT ![c] = "comments"]
    /\ UNCHANGED <<nodes, text, runs, before, article_node, metadata, markdown, raised, webhook>>

\* parser.py 105-107
CallStripComments(c) ==
    /\ pc[c] = "comments"
    /\ alive' = Put(c, strip_comments(CallTree(c)))
    /\ pc' = [pc EXCEPT ![c] = "empty"]
    /\ UNCHANGED <<nodes, text, runs, before, article_node, metadata, markdown, raised, webhook>>

\* parser.py 109-112
CallStripEmpty(c) ==
    /\ pc[c] = "empty"
    /\ alive' = Put(c, strip_empty(CallTree(c), text))
    /\ pc' = [pc EXCEPT ![c] = "whitespace"]
    /\ UNCHANGED <<nodes, text, runs, before, article_node, metadata, markdown, raised, webhook>>

\* parser.py 114-118
CallNormalizeWhitespace(c) ==
    /\ pc[c] = "whitespace"
    /\ text' = normalize_whitespace(CallTree(c), text)
    /\ pc' = [pc EXCEPT ![c] = "cleaned"]
    /\ UNCHANGED <<nodes, alive, runs, before, article_node, metadata, markdown, raised, webhook>>

\* parser.py 70
CallDetect(c) ==
    /\ pc[c] = "cleaned"
    /\ article_node' = [article_node EXCEPT ![c] = detect_main_content(CallTree(c), text)]
    /\ pc' = [pc EXCEPT ![c] = "detected"]
    /\ UNCHANGED <<nodes, alive, text, runs, before, metadata, markdown, raised, webhook>>

\* parser.py 74
CallExtract(c) ==
    /\ pc[c] = "detected"
    /\ IF ValidationFails(extract_fields(CallTree(c), text))
       THEN pc' = [pc EXCEPT ![c] = "raised"] /\ UNCHANGED metadata
       ELSE /\ metadata' = [metadata EXCEPT ![c] = Some(extract_metadata(CallTree(c), text))]
            /\ pc' = [pc EXCEPT ![c] = "extracted"]
    /\ UNCHANGED <<nodes, alive, text, runs, before, article_node, markdown, raised, webhook>>

\* parser.py 78-81: self._md_service.convert, the one MarkdownService of the
\* instance, which has no fields
CallConvert(c) ==
    /\ pc[c] = "extracted"
    /\ markdown' = [markdown EXCEPT ![c] = Some(convert(CallTree(c), text, article_node[c]))]
    /\ pc' = [pc EXCEPT ![c] = "done"]
    /\ UNCHANGED <<nodes, alive, text, runs, before, article_node, metadata, raised, webhook>>

NextCalls ==
    \E c \in Calls :
        \/ CallParse(c)
        \/ CallStripSelectors(c)
        \/ CallStripComments(c)
        \/ CallStripEmpty(c)
        \/ CallNormalizeWhitespace(c)
        \/ CallDetect(c)
        \/ CallExtract(c)
        \/ CallConvert(c)

SpecCalls == InitCalls /\ [][NextCalls]_vars

-----------------------------------------------------------------------------
(* The two readers of the cleaned tree in the other order: conversion first,
   metadata extraction second *)

\* a conversion that detaches what it has rendered, run first
ConvertFirst_consuming ==
    /\ pc = "detected"
    /\ markdown' = Some(convert(alive, text, article_node))
    /\ alive' = alive \ Descendants(alive, article_node)
    /\ pc' = "converted_first"
    /\ UNCHANGED <<nodes, text, runs, before, article_node, metadata, raised, webhook>>

\* markdown.py 21-26, called before extract_metadata
ConvertFirst ==
    /\ pc = "detected"
    /\ markdown' = Some(convert(alive, text, article_node))
    /\ pc' = "converted_first"
    /\ UNCHANGED <<nodes, alive, text, runs, before, article_node, metadata, raised, webhook>>

\* extractors.py 30-66, called after convert
ExtractAfter ==
    /\ pc = "converted_first"
    /\ IF ValidationFails(extract_fields(alive, text))
       THEN raised' = TRUE /\ pc' = "raised" /\ UNCHANGED metadata
       ELSE /\ metadata' = Some(extract_metadata(alive, text))
            /\ pc' = "done"
            /\ UNCHANGED raised
    /\ UNCHANGED <<nodes, alive, text, runs, before, article_node, markdown, webhook>>

NextOrder == BuildHeadItem \/ BuildBody \/ Pipeline \/ ConvertFirst \/ ExtractAfter

SpecOrder == InitParse /\ [][NextOrder]_vars

FormatNames == {"strong", "em", "code", "span"}

\* trees of inline formatting elements and unknown elements
BuildFormatNode == BuildNode(FormatNames, {Word, Trail}, {})

NextFormat == BuildFormatNode \/ ConvertCall

SpecFormat == Init /\ [][NextFormat]_vars

\* a tr below the table (node 1) with the cells of the given kinds and texts,
\* placed after k older nodes
Row(kinds, texts, k) ==
    <<Tag("tr", 1)>> \o
    [i \in 1..(2 * Len(kinds)) |->
        IF i % 2 = 1 THEN Tag(kinds[(i + 1) \div 2], k + 1)
        ELSE Str(texts[i \div 2], k + i)]

\* the table element
BuildTable ==
    /\ pc = "parsing"
    /\ nodes = <<>>
    /\ Built(<<Tag("table", 0)>>)
    /\ UNCHANGED <<pc, runs, before, article_node, metadata, markdown, raised, webhook>>

\* one more row, of any number of td and th cells
BuildRow ==
    /\ pc = "parsing"
    /\ nodes # <<>>
    /\ Cardinality({n \in 1..Len(nodes) : nodes[n].name = "tr"}) < MaxRows
    /\ \E c \in 0..MaxCells :
          \E kinds \in [1..c -> {"td", "th"}] :
              Built(Row(kinds, [i \in 1..c |-> IF i % 2 = 1 THEN Word ELSE <<"y">>],
                        Len(nodes)))
    /\ UNCHANGED <<pc, runs, before, article_node, metadata, markdown, raised, webhook>>

NextRows == BuildTable \/ BuildRow \/ ConvertCall

SpecRows == Init /\ [][NextRows]_vars

-----------------------------------------------------------------------------
(* parse on trees of blocks and lists whose text nodes differ *)

SequenceNames == {"div", "ul", "li", "nav"}

BuildSequenceNode == BuildNode(SequenceNames, {Word, Padded}, {})

NextSequence == BuildSequenceNode \/ Parsed \/ Pipeline

SpecSequence == Init /\ [][NextSequence]_vars

-----------------------------------------------------------------------------
(* extract_metadata called on a tree as it is *)

\* publication dates no datetime can be read from, and a meta without content
DateItems ==
    { <<Meta("citation_publication_date", c, 2)>> :
        c \in {Some(<<"2020/01/15">>), Some(<<"Spring 2020">>), None} }

\* one more citation_publication_date meta in head
BuildDateItem ==
    /\ pc = "parsing"
    /\ Cardinality({n \in 1..Len(nodes) : nodes[n].parent = 2}) < MaxHead
    /\ \E it \in DateItems : Built(it)
    /\ UNCHANGED <<pc, runs, before, article_node, metadata, markdown, raised, webhook>>

\* extractors.py 30-66: extract_metadata(soup, content_node)
ExtractCall ==
    /\ pc = "parsing"
    /\ IF ValidationFails(extract_fields(alive, text))
       THEN raised' = TRUE /\ pc' = "raised" /\ UNCHANGED metadata
       ELSE /\ metadata' = Some(extract_metadata(alive, text))
            /\ pc' = "returned"
            /\ UNCHANGED raised
    /\ UNCHANGED <<nodes, alive, text, runs, before, article_node, markdown, webhook>>

NextExtract == BuildHeadItem \/ BuildDateItem \/ ExtractCall

SpecExtract == InitParse /\ [][NextExtract]_vars

-----------------------------------------------------------------------------
(* Vocabulary of the properties *)

\* _strip_unwanted has returned
Cleaned == pc \in {"cleaned", "detected", "extracted", "done", "raised"}

\* detect_main_content has returned
Detected == pc \in {"detected", "extracted", "done", "raised"}

\* the document as it was parsed, before any cleaning
OrigAlive == 1..Len(nodes)

OrigText == [n \in 1..Len(nodes) |-> nodes[n].text]

Denylist ==
    {"header", "footer", "nav", "aside", "script", "style", "noscript", "iframe", "form"}

\* n is an element of the parsed document with no text below it
OrigTextless(n) == IsTag(n) /\ Strip(GetText(OrigAlive, OrigText, n)) = <<>>

\* n lay inside a denylisted element of the parsed document
InDenylisted(n) ==
    \E m \in {n} \cup Ancestors(nodes, n) : IsTag(m) /\ nodes[m].name \in Denylist

AliveNamed(names) == {n \in alive : IsTag(n) /\ nodes[n].name \in names}

-----------------------------------------------------------------------------
(* C1: for every document given to parse whose head holds a meta element    *)
(* name="citation_title" with content C, the returned metadata.title is C;  *)
(* with no such meta element and a title element of text T (as the cleaned  *)
(* tree holds it), the returned metadata.title is T.                        *)
C1_TitleFromMetaElseTitleTag ==
    pc = "done" =>
        LET metas == MetasNamed(OrigAlive, "citation_title")
            titles == TagsNamed(alive, {"title"})
        IN IF metas # <<>>
           THEN GetContent(Head(metas)).some =>
                    metadata.val.title = GetContent(Head(metas))
           ELSE titles # <<>> =>
                    metadata.val.title = Some(GetText(alive, text, Head(titles)))

(* C2: for every document given to parse, metadata.authors is the sequence  *)
(* of the (non-empty) content values of all meta elements                   *)
(* name="citation_author", in document order, and is absent exactly when    *)
(* the document has no such element with a non-empty content.               *)
C2_AuthorsFromMeta ==
    pc = "done" =>
        LET contents == Contents(MetasNamed(OrigAlive, "citation_author"))
        IN metadata.val.authors = (IF contents # <<>> THEN Some(contents) ELSE None)

(* C3: after _strip_unwanted returns, the tree holds no element other than  *)
(* an img whose text content is empty or whitespace-only; nested text-less  *)
(* elements are removed at every level.                                     *)
C3_NoTextlessElement ==
    Cleaned =>
        \A n \in alive :
            IsTag(n) /\ nodes[n].name # "img" => ~(Strip(GetText(alive, text, n)) = <<>>)

\* a chain of three nested text-less elements was removed whole, beside content
\* that stayed
C3_Witness ==
    /\ pc = "cleaned"
    /\ alive # {}
    /\ \E x, y, z \in OrigAlive :
          /\ nodes[y].parent = x /\ nodes[z].parent = y
          /\ OrigTextless(x) /\ IsTag(y) /\ IsTag(z)
          /\ ~InDenylisted(z)
          /\ {x, y, z} \cap alive = {}

(* C4: every img element with no denylisted ancestor is still in the tree   *)
(* after _strip_unwanted, whatever the text of the elements around it.      *)
C4_ImgKept ==
    Cleaned =>
        \A n \in OrigAlive :
            IsTag(n) /\ nodes[n].name = "img" /\ ~InDenylisted(n) => n \in alive

(* C5: cleaning is idempotent: a second run of _strip_unwanted on the       *)
(* result of the first removes no node and changes no text node.            *)
C5_CleanIdempotent ==
    pc = "cleaned" /\ runs >= 2 => <<alive, text>> = before

\* the second run has returned on a tree the first run had changed in nodes
\* and in text
C5_Witness ==
    /\ pc = "cleaned"
    /\ runs = 2
    /\ alive # {} /\ alive # OrigAlive
    /\ \E n \in alive : text[n] # OrigText[n]

(* C6: after _strip_unwanted returns, the tree holds no header, footer,     *)
(* nav, aside, script, style, noscript, iframe or form element at any       *)
(* depth and no comment; cleaning raises nothing, also on a tree without    *)
(* any of them.                                                             *)
C6_NoDenylistedNoComment ==
    Cleaned =>
        /\ \A n \in alive : ~(IsTag(n) /\ nodes[n].name \in Denylist)
        /\ \A n \in alive : nodes[n].kind # "comment"
        /\ (pc = "cleaned" => ~raised)

\* a denylisted element below an element that stayed, and a comment, were removed
C6_Witness ==
    /\ pc = "cleaned"
    /\ \E y, c \in OrigAlive :
          /\ IsTag(y) /\ nodes[y].name \in Denylist /\ nodes[y].parent \in alive
          /\ nodes[c].kind = "comment"
          /\ {y, c} \cap alive = {}

\* the first of a non-empty set of nodes in document order
First(S) == CHOOSE x \in S : \A y \in S : x <= y

(* C7: if the cleaned tree holds an article element, detect_main_content    *)
(* returns the first article element in document order, also when a div or  *)
(* section has a longer text.                                               *)
C7_FirstArticleWins ==
    Detected /\ AliveNamed({"article"}) # {} =>
        article_node = First(AliveNamed({"article"}))

\* an article was chosen although a div or section has a longer text
C7_Witness ==
    /\ pc = "detected"
    /\ article_node \in AliveNamed({"article"})
    /\ \E d \in AliveNamed({"div", "section"}) :
          Len(GetTextStrip(alive, text, d)) > Len(GetTextStrip(alive, text, article_node))

(* C8: with no article element and at least one div or section,             *)
(* detect_main_content returns a div or section whose trimmed text is at    *)
(* least as long as that of every other, and the first such in document     *)
(* order.                                                                   *)
C8_LongestFirst ==
    Detected /\ AliveNamed({"article"}) = {} /\ AliveNamed({"div", "section"}) # {} =>
        /\ article_node \in AliveNamed({"div", "section"})
        /\ \A c \in AliveNamed({"div", "section"}) :
              LET lc == Len(Strip(GetText(alive, text, c)))
                  ln == Len(Strip(GetText(alive, text, article_node)))
              IN lc <= ln /\ (lc = ln => article_node <= c)

\* two candidates side by side tie for the longest text, and the first of the
\* two was chosen
C8_Witness ==
    /\ pc = "detected"
    /\ AliveNamed({"article"}) = {}
    /\ \E c \in AliveNamed({"div", "section"}) :
          /\ article_node < c
          /\ article_node \notin Ancestors(nodes, c)
          /\ Len(GetTextStrip(alive, text, c)) = Len(GetTextStrip(alive, text, article_node))

(* C9: for every cleaned tree, also one the Cleaner emptied,                *)
(* detect_main_content returns a node of that tree, never None, and raises  *)
(* nothing; with no article, div or section it returns the body element if  *)
(* there is one and the tree root otherwise.                                *)
C9_DetectTotal ==
    Detected =>
        /\ article_node # NoNode
        /\ article_node = Soup \/ article_node \in alive
        /\ (pc = "detected" => ~raised)
        /\ AliveNamed({"article", "div", "section"}) = {} =>
              article_node = (IF AliveNamed({"body"}) # {}
                              THEN First(AliveNamed({"body"})) ELSE Soup)

\* the Cleaner removed every node of a document, and the root was returned
C9_Witness ==
    /\ pc = "detected"
    /\ nodes # <<>>
    /\ alive = {}
    /\ article_node = Soup

\* the parsed document has no citation meta, no description meta and no title
NoMetadataSource ==
    \A n \in OrigAlive : IsTag(n) => nodes[n].name \notin {"meta", "title"}

AllAbsent ==
    [title |-> None, authors |-> None, publication_date |-> None, journal |-> None,
     doi |-> None, keywords |-> None, abstract |-> None]

(* C10: for a document with no citation meta, no description meta and no    *)
(* title element, parse raises nothing and returns an ArticleMetadata with  *)
(* every field absent together with the Markdown of the content.            *)
C10_AbsentMetadataNotFatal ==
    NoMetadataSource =>
        /\ ~raised /\ pc # "raised"
        /\ pc \in {"extracted", "done"} => metadata = Some(AllAbsent)
        /\ pc = "done" =>
              markdown.some /\ markdown.val = convert(alive, text, article_node)

\* parse returned a non-empty Markdown for such a document
C10_Witness ==
    /\ pc = "done"
    /\ NoMetadataSource
    /\ metadata = Some(AllAbsent)
    /\ markdown.some /\ markdown.val # <<>>

-----------------------------------------------------------------------------
\* the direct call of convert has returned
Converted == pc = "converted"

\* the children of the root
TopLevel == Children(alive, Soup)

(* C11: a heading of level n converts to n '#' characters, one space and the
   text of its whole subtree, the words separated as they are in the source
   (<h2>Foo <b>Bar</b></h2> gives "## Foo Bar"). *)
C11_HeadingFlattened ==
    (Converted /\ Len(TopLevel) = 1 /\ IsTag(TopLevel[1])
        /\ nodes[TopLevel[1]].name \in DOMAIN heading_map)
    => markdown.val = heading_map[nodes[TopLevel[1]].name]
                        \o Strip(GetText(alive, text, TopLevel[1]))

\* s begins with the string pre
StartsWith(s, pre) == Len(s) >= Len(pre) /\ SubSeq(s, 1, Len(pre)) = pre

\* the lines of a string (the empty string has none)
LinesOf(s) == IF s = <<>> THEN <<>> ELSE Split(s, "\n")

\* the direct li children of n
DirectItems(n) ==
    SetToSeq({m \in alive : nodes[m].parent = n /\ IsTag(m) /\ nodes[m].name = "li"})

(* C12: a list with k direct li children converts to exactly k lines in
   document order; line i of an ol starts with "i. ", every line of a ul
   starts with "- "; the li elements of nested lists add no line and do not
   advance the index. *)
C12_ListLines ==
    (Converted /\ Len(TopLevel) = 1 /\ IsTag(TopLevel[1])
        /\ nodes[TopLevel[1]].name \in {"ol", "ul"})
    => LET n == TopLevel[1]
           lines == LinesOf(markdown.val)
       IN /\ Len(lines) = Len(DirectItems(n))
          /\ \A i \in 1..Len(lines) :
                StartsWith(lines[i],
                           IF nodes[n].name = "ol"
                           THEN Decimal(i) \o <<".", " ">> ELSE <<"-", " ">>)

\* the tr elements below n and the cells below a row, in document order
RowsOf(n) == SetToSeq({m \in Descendants(alive, n) : IsTag(m) /\ nodes[m].name = "tr"})

CellsOf(row) ==
    SetToSeq({m \in Descendants(alive, row) : IsTag(m) /\ nodes[m].name \in {"td", "th"}})

\* "| c1 | c2 | ... |"
PipeLine(cells) == <<"|", " ">> \o Join(<<" ", "|", " ">>, cells) \o <<" ", "|">>

(* C13: a table with n >= 1 tr rows converts to exactly n + 1 lines: the
   header line of the cells of the first row, a separator line with one
   "---" per header cell, then one line per remaining row in document order;
   a table without tr converts to the empty string. *)
C13_TableShape ==
    (Converted /\ Len(TopLevel) = 1 /\ IsTag(TopLevel[1])
        /\ nodes[TopLevel[1]].name = "table")
    => LET rows == RowsOf(TopLevel[1])
           lines == LinesOf(markdown.val)
       IN IF rows = <<>> THEN markdown.val = <<>>
          ELSE /\ Len(lines) = Len(rows) + 1
               /\ lines[1] = PipeLine([i \in 1..Len(CellsOf(rows[1])) |->
                                 Strip(GetText(alive, text, CellsOf(rows[1])[i]))])
               /\ lines[2] = PipeLine([i \in 1..Len(CellsOf(rows[1])) |-> <<"-", "-", "-">>])
               /\ \A r \in 2..Len(rows) :
                     lines[r + 1] = PipeLine([i \in 1..Len(CellsOf(rows[r])) |->
                                        Strip(GetText(alive, text, CellsOf(rows[r])[i]))])

\* a table of two rows, the header of two cells, has been converted
C13_Witness ==
    /\ Converted /\ Len(TopLevel) = 1
    /\ nodes[TopLevel[1]].name = "table"
    /\ Len(RowsOf(TopLevel[1])) = 2
    /\ Len(CellsOf(RowsOf(TopLevel[1])[1])) = 1
    /\ Len(LinesOf(markdown.val)) = 3

\* the value of attribute key of n, or dflt when n has no such attribute
AttrOr(n, key, dflt) ==
    IF \E p \in nodes[n].attrs : p[1] = key
    THEN (CHOOSE p \in nodes[n].attrs : p[1] = key)[2] ELSE dflt

(* C14: an a element converts to "[text](h)" with its href h, and to
   "[text](#)" without href; an img element converts to "![alt](src)" with
   the empty string for a missing alt or src ("![]()" with neither). *)
C14_LinkImageDefaults ==
    (Converted /\ Len(TopLevel) = 1 /\ IsTag(TopLevel[1]))
    => LET n == TopLevel[1]
       IN /\ nodes[n].name = "a" =>
                markdown.val = <<"[">> \o Strip(GetText(alive, text, n)) \o <<"]", "(">>
                                 \o AttrOr(n, "href", <<"#">>) \o <<")">>
          /\ nodes[n].name = "img" =>
                markdown.val = <<"!", "[">> \o AttrOr(n, "alt", <<>>) \o <<"]", "(">>
                                 \o AttrOr(n, "src", <<>>) \o <<")">>

\* a link without href and with text has been converted
C14_Witness ==
    /\ Converted /\ Len(TopLevel) = 1
    /\ nodes[TopLevel[1]].name = "a"
    /\ nodes[TopLevel[1]].attrs = {}
    /\ markdown.val = <<"[", "x", "]", "(", "#", ")">>

\* the conversion of every child of the root, in child order
TopLevelParts == [i \in 1..Len(TopLevel) |-> convert_node(alive, text, TopLevel[i])]

(* C15: convert converts every direct child of the content root, drops the
   children whose result is empty and joins the others in child order with
   exactly two newlines; the output never starts or ends with a newline and
   is empty exactly when every child converts to the empty string. *)
C15_JoinNonEmpty ==
    Converted =>
        /\ markdown.val = Join(<<"\n", "\n">>, SelectSeq(TopLevelParts, LAMBDA x : x # <<>>))
        /\ markdown.val = <<>> <=> \A i \in 1..Len(TopLevel) : TopLevelParts[i] = <<>>
        /\ markdown.val # <<>> =>
              markdown.val[1] # "\n" /\ markdown.val[Len(markdown.val)] # "\n"

\* three children, the middle one converting to nothing, have been joined
C15_Witness ==
    /\ Converted /\ Len(TopLevel) = 3
    /\ TopLevelParts[2] = <<>>
    /\ markdown.val = <<"x", "\n", "\n", "x">>

(* C16: on every tree (lists without li, li outside a list, tables without
   rows, unknown tags) convert returns a string and raises nothing; an
   element no rule names is rendered by the plain-text fallback. *)
C16_ConvertTotal ==
    /\ pc \in {"converted", "raised"} => ~raised /\ markdown.some /\ ~Raises(markdown.val)
    /\ (Converted /\ Len(TopLevel) = 1 /\ IsTag(TopLevel[1])
          /\ nodes[TopLevel[1]].name = "span" /\ ~HasHeading(alive, TopLevel[1]))
       => markdown.val = GetTextStrip(alive, text, TopLevel[1])

\* a list without li, a stray li, a table without rows and an unknown element
\* have been converted
C16_Witness ==
    /\ Converted /\ Len(TopLevel) = 4
    /\ {nodes[TopLevel[i]].name : i \in 1..4} = {"ul", "li", "table", "span"}

\* the document tree
tree == <<nodes, alive, text>>

(* C17: detect_main_content, extract_metadata and MarkdownService.convert
   leave the tree as it was (same nodes, attributes, texts, child order);
   within parse the tree changes only while _strip_unwanted runs (or while
   the parser builds it). *)
C17_ReadOnlyAfterCleaning ==
    [][ tree' # tree => pc \in {"parsing", "selectors", "comments", "empty", "whitespace"} ]_vars

\* parse has run to its end on a tree the cleaner changed and the converter rendered
C17_Witness ==
    /\ pc = "done"
    /\ alive # 1..Len(nodes)
    /\ article_node # Soup
    /\ markdown.val # <<>>
    /\ metadata.val.title.some

\* what parse returns for the document of call c when the call runs alone
Alone(c) ==
    LET t0 == [n \in 1..Len(nodes) |-> nodes[n].text]
        a3 == strip_empty(strip_comments(strip_selectors(Own(c))), t0)
        t1 == normalize_whitespace(a3, t0)
    IN <<Some(convert(a3, t1, detect_main_content(a3, t1))),
         Some(extract_metadata(a3, t1))>>

(* C18: parse calls that run concurrently on the one HTMLParserService, each
   on its own input, share no mutable state: whatever the interleaving, a
   call returns the (markdown, metadata) pair it returns when it runs alone. *)
C18_CallsIndependent ==
    \A c \in Calls : pc[c] = "done" => <<markdown[c], metadata[c]>> = Alone(c)

\* the first call has returned a result while the second one, on another
\* document, was in the middle of _strip_unwanted
C18_Witness ==
    /\ pc[1] = "done" /\ pc[2] = "empty"
    /\ markdown[1].val # <<>>
    /\ Alone(1) # Alone(2)

\* the tree _strip_unwanted makes of the tree its latest run began with
CleanedTree ==
    LET a3 == strip_empty(strip_comments(strip_selectors(before[1])), before[2])
    IN <<a3, normalize_whitespace(a3, before[2])>>

(* C19: on the cleaned tree with its content root, extraction before
   conversion and conversion before extraction end with the same
   (markdown, metadata) pair, the one the cleaned tree determines; and
   neither step has run before _strip_unwanted has completed. *)
C19_OrderIndependent ==
    /\ pc = "done" =>
          /\ markdown = Some(convert(CleanedTree[1], CleanedTree[2], article_node))
          /\ metadata = Some(extract_metadata(CleanedTree[1], CleanedTree[2]))
    /\ (pc \in {"extracted", "converted_first", "done"} \/ markdown.some \/ metadata.some)
          => runs >= 1 /\ <<alive, text>> = CleanedTree

\* conversion has run first, on a cleaned tree with a title and with content,
\* and extraction is still to run
C19_Witness ==
    /\ pc = "converted_first"
    /\ markdown.val # <<>>
    /\ ~metadata.some
    /\ Find(alive, "title") # NoNode

\* the text of n that lies outside denylisted elements, in the tree as parsed
\* (tag.text never includes comments)
TextOutsideDenylist(n) ==
    JoinText(OrigText,
             SetToSeq({m \in Descendants(OrigAlive, n) :
                          nodes[m].kind = "text" /\ ~InDenylisted(m)}))

(* C20: denylist removal and comment removal are complete before the
   empty-element pass starts, so an element (other than img) whose only
   non-whitespace text lies inside denylisted descendants or comments is
   removed by the empty-element pass. *)
C20_EmptiedByDenylist ==
    /\ pc \in {"empty", "whitespace"} =>
          \A n \in alive : ~(nodes[n].kind = "comment")
                             /\ ~(IsTag(n) /\ nodes[n].name \in Denylist)
    /\ Cleaned =>
          \A n \in 1..Len(nodes) :
              (IsTag(n) /\ nodes[n].name # "img"
                 /\ Strip(TextOutsideDenylist(n)) = <<>>) => n \notin alive

\* an element with text, all of it inside a denylisted child, has been removed
C20_Witness ==
    /\ Cleaned
    /\ \E n \in 1..Len(nodes) :
          /\ IsTag(n) /\ nodes[n].name = "div" /\ ~InDenylisted(n)
          /\ Strip(GetText(OrigAlive, OrigText, n)) # <<>>
          /\ Strip(TextOutsideDenylist(n)) = <<>>
          /\ n \notin alive

\* the flattened trimmed text of n: its strings concatenated, trimmed as a
\* whole or one by one
Flattened(n) == {Strip(GetText(alive, text, n)), GetTextStrip(alive, text, n)}

\* n is the one child of the root and it is an element
Sole(n) == Converted /\ TopLevel = <<n>> /\ IsTag(n)

(* C21: a p or div element converts to the flattened trimmed text of its
   subtree; its children are not converted, so no marker made from a nested
   element (emphasis stars, a heading '#', a list prefix) is in the result. *)
C21_BlockFlattened ==
    \A n \in alive :
        (Sole(n) /\ nodes[n].name \in {"p", "div"}) => markdown.val \in Flattened(n)

(* C22: an element that is none of h1..h6, p, div, ul, ol, li, img, a, table
   (strong, em, code, span, ...) converts to the flattened trimmed text of
   its subtree and nothing else: no formatting marker is added. *)
C22_FallbackFlattened ==
    \A n \in alive :
        (Sole(n) /\ nodes[n].name \in FormatNames) => markdown.val \in Flattened(n)

\* line carries nothing a nested list adds: no indentation
Unindented(line) == line = <<>> \/ line[1] # " "

(* C23: a nested ul/ol inside an li is flattened into the text of that item:
   a list with k direct li children gives exactly k lines whatever the items
   contain, each line is the prefix and the flattened text of its item, and
   no line is indented. *)
C23_NestedListFlattened ==
    \A n \in alive :
        (Sole(n) /\ nodes[n].name \in {"ul", "ol"}) =>
            LET lines == LinesOf(markdown.val)
                items == DirectItems(n)
            IN /\ Len(lines) = Len(items)
               /\ \A i \in 1..Len(lines) :
                     /\ Unindented(lines[i])
                     /\ \E f \in Flattened(items[i]) :
                           lines[i] = (IF nodes[n].name = "ol"
                                       THEN Decimal(i) \o <<".", " ">>
                                       ELSE <<"-", " ">>) \o f

\* the texts of the td and th children of row, in document order
CellTextsOf(row) ==
    LET cells == SetToSeq({m \in alive : nodes[m].parent = row
                                          /\ nodes[m].name \in {"td", "th"}})
    IN [i \in 1..Len(cells) |-> GetText(alive, text, cells[i])]

(* C24: every row after the first becomes one line holding exactly the td/th
   cells of that row, in order: a row shorter than the header gives a shorter
   line, nothing is padded in and nothing is raised; the separator has the
   width of the header row only. *)
C24_RowsNotReconciled ==
    /\ pc # "raised"
    /\ (Converted /\ nodes[1].name = "table" /\ RowsOf(1) # <<>>) =>
          LET rows == RowsOf(1)
              lines == LinesOf(markdown.val)
          IN /\ lines[2] = PipeLine([i \in 1..Len(CellTextsOf(rows[1])) |-> <<"-", "-", "-">>])
             /\ \A r \in 2..Len(rows) : lines[r + 1] = PipeLine(CellTextsOf(rows[r]))

\* a header of two cells and a later row of one cell have been converted
C24_Witness ==
    /\ Converted /\ nodes[1].name = "table" /\ Len(RowsOf(1)) = 3
    /\ Len(CellTextsOf(RowsOf(1)[1])) = 2
    /\ Len(CellTextsOf(RowsOf(1)[2])) = 1
    /\ LinesOf(markdown.val)[3] = <<"|", " ", "x", " ", "|">>

\* the non-whitespace characters of the text nodes, as they follow each other in s
Letters(s) == SelectSeq(s, LAMBDA c : c \in {"x", "y", "z"})

RECURSIVE IsSubseq(_, _)
\* s is what is left of t when some of its elements are taken out
IsSubseq(s, t) ==
    IF s = <<>> THEN TRUE
    ELSE IF t = <<>> THEN FALSE
    ELSE IF Head(s) = Head(t) THEN IsSubseq(Tail(s), Tail(t))
    ELSE IsSubseq(s, Tail(t))

(* C25: child order is preserved end to end: the nodes that survive
   _strip_unwanted keep their document order, and what convert emits (parts,
   list lines) follows the document order of the nodes it comes from. *)
C25_OrderPreserved ==
    /\ Cleaned =>
          /\ \A n \in alive : nodes[n].parent # Soup => nodes[n].parent \in alive
          /\ IsSubseq(Letters(GetText(alive, text, Soup)),
                      Letters(GetText(OrigAlive, OrigText, Soup)))
    /\ pc = "done" =>
          IsSubseq(Letters(markdown.val), Letters(GetText(alive, text, article_node)))

\* the cleaner has removed an element between two text nodes, and the
\* converter has rendered both of them
C25_Witness ==
    /\ pc = "done"
    /\ alive # OrigAlive
    /\ Letters(markdown.val) = <<"x", "y", "z">>

\* s has no tab, no newline, no two whitespace characters in a row and no
\* whitespace at either end
Normalized(s) ==
    /\ \A i \in 1..Len(s) : s[i] \notin {"\t", "\n"}
    /\ \A i \in 1..(Len(s) - 1) : ~(IsSpace(s[i]) /\ IsSpace(s[i + 1]))
    /\ s # <<>> => ~IsSpace(s[1]) /\ ~IsSpace(s[Len(s)])

(* C26: after _strip_unwanted every text node left in the tree has no run of
   two or more whitespace characters, no tab or newline and no leading or
   trailing whitespace. *)
C26_TextNormalized ==
    Cleaned => \A n \in alive : nodes[n].kind = "text" => Normalized(text[n])

\* a text node with padding and inner runs of whitespace is left, normalised
C26_Witness ==
    /\ Cleaned
    /\ \E n \in alive : nodes[n].text = Padded /\ text[n] = <<"y", " ", "z">>

\* the content attribute of the first citation_publication_date meta, as it
\* stands in the document
RawDate ==
    LET ms == {n \in alive : nodes[n].name = "meta"
                               /\ <<"name", <<"citation_publication_date">>>> \in nodes[n].attrs}
    IN IF ms = {} THEN None
       ELSE LET m == First(ms)
            IN IF \E p \in nodes[m].attrs : p[1] = "content"
               THEN Some((CHOOSE p \in nodes[m].attrs : p[1] = "content")[2]) ELSE None

(* C27: extract_metadata returns publication_date as the raw content string
   of the citation_publication_date meta, unchanged, for every content value,
   and the format of the value never makes it raise. *)
C27_RawPublicationDate ==
    pc \in {"returned", "raised"} =>
        /\ ~raised
        /\ metadata.some
        /\ metadata.val.publication_date = RawDate

(* C28: _strip_unwanted loses no content text: every non-whitespace character
   of a text node that lies in no denylisted element (and is no comment) is
   still in the text of the cleaned tree, in the same order. *)
C28_NoContentLost ==
    Cleaned => Letters(GetText(alive, text, Soup)) = Letters(TextOutsideDenylist(Soup))

\* the cleaner has removed a node next to text that it has kept
C28_Witness ==
    /\ Cleaned
    /\ alive # OrigAlive
    /\ Letters(GetText(alive, text, Soup)) = <<"y", "z">>
    /\ \E n \in alive : IsTag(n) /\ nodes[n].parent # Soup

(* C29: without an article element, the element detect_main_content returns
   is never inside another div or section: of nested candidates the
   outermost is selected (an ancestor's text is at least as long as each
   descendant's, and a tie goes to the first in document order). *)
C29_OutermostCandidate ==
    (Detected /\ AliveNamed({"article"}) = {} /\ article_node # Soup) =>
        \A m \in Ancestors(nodes, article_node) :
            ~(m \in alive /\ nodes[m].name \in {"div", "section"})

\* a section with text nested in a div with more text: the div was selected
C29_Witness ==
    /\ Detected /\ AliveNamed({"article"}) = {}
    /\ article_node # Soup /\ nodes[article_node].name = "div"
    /\ \E m \in AliveNamed({"section"}) :
          /\ article_node \in Ancestors(nodes, m)
          /\ Length(alive, text, m) > 0
          /\ Length(alive, text, m) < Length(alive, text, article_node)

\* the positions of the POST attempts in the log of the deliver call
Posts == {i \in 1..Len(webhook.log) : webhook.log[i].event = "post"}

Sleeps == {i \in 1..Len(webhook.log) : webhook.log[i].event = "sleep"}

(* C30: deliver sends nothing when WEBHOOK_URL is unset; otherwise it makes
   at least one and at most max_retries POST attempts, none after the first
   2xx response, sleeps only between two attempts (never after the last one)
   and returns without raising whatever the attempts end with. *)
C30_DeliverBounded ==
    /\ ~webhook.raised
    /\ Cardinality(Posts) <= webhook.max_retries
    /\ \A i \in Posts : IsSuccess(webhook.log[i].outcome) => i = Len(webhook.log)
    /\ \A i \in Sleeps : i - 1 \in Posts /\ (webhook.pc = "returned" => i + 1 \in Posts)
    /\ webhook.pc = "returned" =>
          IF webhook.url THEN Cardinality(Posts) >= 1 ELSE webhook.log = <<>>

\* deliver has returned after a failed attempt, a sleep and a 2xx response,
\* with an attempt to spare
C30_Witness ==
    /\ webhook.pc = "returned"
    /\ webhook.max_retries = 3
    /\ Cardinality(Posts) = 2 /\ Cardinality(Sleeps) = 1
    /\ IsSuccess(webhook.log[3].outcome)

====
